---- MODULE Spec2Model ----
(***************************************************************************)
(* RouteFinderService (first service draft): findOptimalPath validates the *)
(* node references of a request, builds the undirected adjacency structure *)
(* without the blocked nodes, and stitches one Dijkstra search per         *)
(* consecutive pair of [start] + requiredStops + [end].                    *)
(*                                                                         *)
(* JavaScript values are modelled as follows.  A string is a TLA+ string;  *)
(* the empty string is the only falsy node identifier.  `null` is the      *)
(* empty sequence <<>> where a "string | null" is held (a found node n is  *)
(* <<n>>).  A Map is a function whose DOMAIN is the set of its keys; the   *)
(* insertion order of the keys of the graph (which is the iteration order  *)
(* of the unvisited Set) is kept as a sequence.  Arrays that the code only *)
(* reads with includes() are sets.                                         *)
(***************************************************************************)
EXTENDS Integers, Sequences, FiniteSets, TLC

VARIABLES request, pc, graph, segIndex, distances, previous, unvisited,
          totalPath, totalCost, outcome

vars == <<request, pc, graph, segIndex, distances, previous, unvisited,
          totalPath, totalCost, outcome>>

(***************************************************************************)
(* Bounds of the model.                                                    *)
(***************************************************************************)
MaxStops == 2

MaxBlocked == 1

MaxEdges == 3

\* Number.POSITIVE_INFINITY: larger than the cost of any path of the model.
Infinity == 1000

\* The node identifiers a request may mention.  A request mentions
\* identifiers of one of the IdSets only.
NodeIds == {"", "A", "B", "C"}

IdSets == {{"A", "B", "C"}, {"", "A", "B"}}

Edge(f, t, c) == [from |-> f, to |-> t, cost |-> c]

\* The edges a request draws from, in the order in which they appear in its
\* edge list: a triangle whose direct edge is dearer than the detour, a
\* second edge between A and B (other direction, other cost), a self-loop of
\* negative cost, a detour through the node named by the empty string, and
\* an edge that puts that node as far from C as B is.
EdgePool ==
    << Edge("A", "B", 1), Edge("B", "C", 1), Edge("A", "C", 3),
       Edge("B", "A", 2), Edge("C", "C", -1),
       Edge("A", "", 0), Edge("", "B", 0), Edge("", "C", 1) >>

(***************************************************************************)
(* JavaScript helpers.                                                     *)
(***************************************************************************)
\* new Map(): a map without keys.
EmptyMap == [k \in {} |-> 0]

\* map.set(k, v)
MapSet(m, k, v) == [x \in (DOMAIN m) \cup {k} |-> IF x = k THEN v ELSE m[x]]

\* The elements of an array, as a set.
Elems(s) == {s[i] : i \in 1..Len(s)}

\* Truthiness of a "string | null": null and "" are falsy.
Truthy(cur) == cur # <<>> /\ cur[1] # ""

\* The subsequence of seq at the positions in S, in the order of seq.
SubSeqAt(seq, S) ==
    LET F[i \in 0..Len(seq)] ==
            IF i = 0 THEN <<>>
            ELSE IF i \in S THEN Append(F[i - 1], seq[i]) ELSE F[i - 1]
    IN  F[Len(seq)]

(***************************************************************************)
(* The requests of the model (PathRequestDto).                             *)
(***************************************************************************)
EdgeLists(U) ==
    LET usable == {i \in 1..Len(EdgePool) :
                      EdgePool[i].from \in U /\ EdgePool[i].to \in U}
    IN  {SubSeqAt(EdgePool, S) :
            S \in {T \in SUBSET usable : Cardinality(T) <= MaxEdges}}

StopLists(U) == UNION {[1..n -> U] : n \in 0..MaxStops}

BlockedSets(U) == {b \in SUBSET U : Cardinality(b) <= MaxBlocked}

\* nodes: any identifiers of U, at least one (an array of two or more
\* entries, which may repeat).
DeclaredSets(U) == (SUBSET U) \ {{}}

Requests ==
    UNION {[start : U, end : U, nodes : DeclaredSets(U), edges : EdgeLists(U),
            blockedNodes : BlockedSets(U), requiredStops : StopLists(U)]
           : U \in IdSets}

(***************************************************************************)
(* validateNodesExist                                                      *)
(***************************************************************************)
\* flatMap that lists the to end of an edge before its from end.
EdgeNodesToFirst(edges) ==
    LET F[i \in 0..Len(edges)] ==
            IF i = 0 THEN <<>>
            ELSE F[i - 1] \o <<edges[i].to, edges[i].from>>
    IN  F[Len(edges)]

\* edges.flatMap((e) => [e.from, e.to])
EdgeNodes(edges) ==
    LET F[i \in 0..Len(edges)] ==
            IF i = 0 THEN <<>>
            ELSE F[i - 1] \o <<edges[i].from, edges[i].to>>
    IN  F[Len(edges)]

\* validateNodesExist that reports only the first missing node.
validateReportsFirstMissing(validNodes, edges, mustExistNodes) ==
    LET missing == SelectSeq(mustExistNodes, LAMBDA n : n \notin validNodes)
        invalidEdgeNodes ==
            SelectSeq(EdgeNodes(edges), LAMBDA n : n \notin validNodes)
    IN  IF Len(missing) # 0
        THEN [kind |-> "MissingNodes", names |-> <<missing[1]>>]
        ELSE IF Len(invalidEdgeNodes) # 0
        THEN [kind |-> "InvalidEdgeNodes", names |-> invalidEdgeNodes]
        ELSE [kind |-> "ok", names |-> <<>>]

\* validateNodesExist that looks at the edges before the required nodes.
validateChecksEdgesFirst(validNodes, edges, mustExistNodes) ==
    LET missing == SelectSeq(mustExistNodes, LAMBDA n : n \notin validNodes)
        invalidEdgeNodes ==
            SelectSeq(EdgeNodes(edges), LAMBDA n : n \notin validNodes)
    IN  IF Len(invalidEdgeNodes) # 0
        THEN [kind |-> "InvalidEdgeNodes", names |-> invalidEdgeNodes]
        ELSE IF Len(missing) # 0
        THEN [kind |-> "MissingNodes", names |-> missing]
        ELSE [kind |-> "ok", names |-> <<>>]

validateNodesExist(validNodes, edges, mustExistNodes) ==
    LET missing == SelectSeq(mustExistNodes, LAMBDA n : n \notin validNodes)
        invalidEdgeNodes ==
            SelectSeq(EdgeNodes(edges), LAMBDA n : n \notin validNodes)
    IN  IF Len(missing) # 0
        THEN [kind |-> "MissingNodes", names |-> missing]
        ELSE IF Len(invalidEdgeNodes) # 0
        THEN [kind |-> "InvalidEdgeNodes", names |-> invalidEdgeNodes]
        ELSE [kind |-> "ok", names |-> <<>>]

(***************************************************************************)
(* buildGraph                                                              *)
(***************************************************************************)
\* new Map<string, Map<string, number>>()
EmptyGraph == [keys |-> <<>>, adj |-> EmptyMap]

\* if (!graph.has(n)) graph.set(n, new Map())
EnsureKey(g, n) ==
    IF n \in DOMAIN g.adj THEN g
    ELSE [keys |-> Append(g.keys, n), adj |-> MapSet(g.adj, n, EmptyMap)]

\* set() that keeps the cost already recorded for the pair.
SetCostKeepsFirst(g, a, b, cost) ==
    IF b \in DOMAIN g.adj[a] THEN g
    ELSE [g EXCEPT !.adj = MapSet(g.adj, a, MapSet(g.adj[a], b, cost))]

\* graph.get(a)!.set(b, cost)
SetCost(g, a, b, cost) ==
    [g EXCEPT !.adj = MapSet(g.adj, a, MapSet(g.adj[a], b, cost))]

\* The loop body that skips an edge only when its from end is blocked.
AddEdgeChecksFromOnly(g, e, blockedNodes) ==
    IF e.from \in blockedNodes THEN g
    ELSE SetCost(SetCost(EnsureKey(EnsureKey(g, e.from), e.to),
                         e.from, e.to, e.cost),
                 e.to, e.from, e.cost)

\* One iteration of the loop over the edges.
AddEdge(g, e, blockedNodes) ==
    IF e.from \in blockedNodes \/ e.to \in blockedNodes THEN g
    ELSE SetCost(SetCost(EnsureKey(EnsureKey(g, e.from), e.to),
                         e.from, e.to, e.cost),
                 e.to, e.from, e.cost)

buildGraph(edges, blockedNodes) ==
    LET G[i \in 0..Len(edges)] ==
            IF i = 0 THEN EmptyGraph
            ELSE AddEdge(G[i - 1], edges[i], blockedNodes)
    IN  G[Len(edges)]

(***************************************************************************)
(* dijkstra and its helpers                                                *)
(***************************************************************************)
\* unvisited.delete(current): the other members keep their order.
SetDelete(unv, current) == SelectSeq(unv, LAMBDA n : n # current)

\* A selection that takes the first unvisited node that has been reached.
getFirstReachedNode(unv, dist) ==
    LET reached == SelectSeq(unv, LAMBDA n : dist[n] < Infinity)
    IN  IF reached = <<>> THEN <<>> ELSE <<reached[1]>>

\* The first member of unvisited, in iteration order, whose distance is
\* strictly below every distance before it; null (<<>>) when every distance
\* is Infinity or unvisited is empty.
getMinDistanceNode(unv, dist) ==
    LET F[i \in 0..Len(unv)] ==
            IF i = 0 THEN [minNode |-> <<>>, minDistance |-> Infinity]
            ELSE IF dist[unv[i]] < F[i - 1].minDistance
                 THEN [minNode |-> <<unv[i]>>, minDistance |-> dist[unv[i]]]
                 ELSE F[i - 1]
    IN  F[Len(unv)].minNode

\* graph.get(current) || new Map()
Neighbors(g, current) ==
    IF current \in DOMAIN g.adj THEN g.adj[current] ELSE EmptyMap

\* The neighbors that a comparison with <= instead of < would update.
ImprovedOrEqual(current, g, unv, dist) ==
    {n \in DOMAIN Neighbors(g, current) :
        /\ n \in Elems(unv)
        /\ dist[current] + Neighbors(g, current)[n] <= dist[n]}

\* The neighbors that would be updated without the test of unvisited.
ImprovedIgnoresVisited(current, g, unv, dist) ==
    {n \in DOMAIN Neighbors(g, current) :
        dist[current] + Neighbors(g, current)[n] < dist[n]}

\* The neighbors of current that processNeighbors updates.
Improved(current, g, unv, dist) ==
    {n \in DOMAIN Neighbors(g, current) :
        /\ n \in Elems(unv)
        /\ dist[current] + Neighbors(g, current)[n] < dist[n]}

\* The updates of distinct neighbors do not depend on one another (current
\* itself is no longer unvisited), so the loop is a pointwise update.
processNeighbors(current, g, unv, dist, prev) ==
    LET imp == Improved(current, g, unv, dist)
    IN  [distances |->
            [n \in DOMAIN dist |->
                IF n \in imp THEN dist[current] + Neighbors(g, current)[n]
                ELSE dist[n]],
         previous |->
            [n \in (DOMAIN prev) \cup imp |->
                IF n \in imp THEN current ELSE prev[n]]]

\* previous.get(current) || null
PreviousOf(prev, n) ==
    IF n \in DOMAIN prev /\ prev[n] # "" THEN <<prev[n]>> ELSE <<>>

RECURSIVE WalkBack(_, _, _, _)
\* while (current && current !== start) { path.unshift(current); ... }
WalkBack(current, start, prev, path) ==
    IF Truthy(current) /\ current[1] # start
    THEN WalkBack(PreviousOf(prev, current[1]), start, prev,
                  <<current[1]>> \o path)
    ELSE [current |-> current, path |-> path]

\* null is [found |-> FALSE]; a path is [found |-> TRUE, path |-> ...].
reconstructPath(start, end, prev) ==
    LET w == WalkBack(<<end>>, start, prev, <<>>)
    IN  IF ~Truthy(w.current) THEN [found |-> FALSE, path |-> <<>>]
        ELSE [found |-> TRUE, path |-> <<start>> \o w.path]

\* The state of a search before its loop.
DijkstraInit(g, start) ==
    [distances |-> [n \in (DOMAIN g.adj) \cup {start} |->
                       IF n = start THEN 0 ELSE Infinity],
     previous |-> EmptyMap,
     unvisited |-> g.keys]

\* The loop of dijkstra goes on: there is an unvisited node, a node is
\* selected, and it is not the end node.
LoopContinues(unv, dist, end) ==
    /\ Len(unv) > 0
    /\ Truthy(getMinDistanceNode(unv, dist))
    /\ getMinDistanceNode(unv, dist)[1] # end

\* A return that gives the two ends as the path when no path was found.
DijkstraReturnNeverNull(start, end, dist, prev) ==
    LET p == reconstructPath(start, end, prev)
    IN  IF p.found THEN [found |-> TRUE, path |-> p.path, cost |-> dist[end]]
        ELSE [found |-> TRUE, path |-> <<start, end>>, cost |-> 0]

\* What dijkstra returns once its loop has ended.
DijkstraReturn(start, end, dist, prev) ==
    LET p == reconstructPath(start, end, prev)
    IN  IF p.found THEN [found |-> TRUE, path |-> p.path, cost |-> dist[end]]
        ELSE [found |-> FALSE, path |-> <<>>, cost |-> 0]

(***************************************************************************)
(* findPathWithRequiredStops                                               *)
(***************************************************************************)
\* The sequence without the required stops.
SequenceWithoutStops(req) == <<req.start, req.end>>

\* [start, ...requiredStops, end]
SequenceOf(req) == <<req.start>> \o req.requiredStops \o <<req.end>>

\* Stitch that drops the first node of the first segment too.
StitchDropsFirst(i, tp, segPath) == tp \o Tail(segPath)

\* Stitch that keeps the first node of every segment.
StitchKeepsJoin(i, tp, segPath) ==
    IF i = 1 THEN segPath ELSE tp \o segPath

\* i === 0 ? segment.path : [...totalPath, ...segment.path.slice(1)]
Stitch(i, tp, segPath) ==
    IF i = 1 THEN segPath ELSE tp \o Tail(segPath)

(***************************************************************************)
(* The service as a state machine: one request per behaviour.              *)
(***************************************************************************)
NoOutcome == [kind |-> "none", path |-> <<>>, totalCost |-> 0, names |-> <<>>]

Init ==
    /\ request \in Requests
    /\ pc = "validate"
    /\ graph = EmptyGraph
    /\ segIndex = 1
    /\ distances = EmptyMap
    /\ previous = EmptyMap
    /\ unvisited = <<>>
    /\ totalPath = <<>>
    /\ totalCost = 0
    /\ outcome = NoOutcome

\* findOptimalPath, line 26: validation, which throws or falls through.
Validate ==
    /\ pc = "validate"
    /\ LET v == validateNodesExist(request.nodes, request.edges,
                    request.requiredStops \o <<request.end>>)
       IN  IF v.kind = "ok"
           THEN /\ pc' = "build"
                /\ outcome' = outcome
           ELSE /\ pc' = "done"
                /\ outcome' = [NoOutcome EXCEPT !.kind = v.kind,
                                                !.names = v.names]
    /\ UNCHANGED <<request, graph, segIndex, distances, previous, unvisited,
                   totalPath, totalCost>>

\* findOptimalPath, line 28, and the entry of findPathWithRequiredStops.
BuildGraph ==
    /\ pc = "build"
    /\ graph' = buildGraph(request.edges, request.blockedNodes)
    /\ segIndex' = 1
    /\ totalPath' = <<>>
    /\ totalCost' = 0
    /\ pc' = "segment"
    /\ UNCHANGED <<request, distances, previous, unvisited, outcome>>

\* The call of dijkstra for the segment segIndex, up to its loop.
BeginSegment ==
    /\ pc = "segment"
    /\ LET d == DijkstraInit(graph, SequenceOf(request)[segIndex])
       IN  /\ distances' = d.distances
           /\ previous' = d.previous
           /\ unvisited' = d.unvisited
    /\ pc' = "loop"
    /\ UNCHANGED <<request, graph, segIndex, totalPath, totalCost, outcome>>

\* One iteration of the loop of dijkstra that does not break.
Iterate ==
    /\ pc = "loop"
    /\ LoopContinues(unvisited, distances, SequenceOf(request)[segIndex + 1])
    /\ LET current == getMinDistanceNode(unvisited, distances)[1]
           unv == SetDelete(unvisited, current)
           r == processNeighbors(current, graph, unv, distances, previous)
       IN  /\ unvisited' = unv
           /\ distances' = r.distances
           /\ previous' = r.previous
    /\ UNCHANGED <<request, pc, graph, segIndex, totalPath, totalCost, outcome>>

\* The loop of dijkstra ends; dijkstra returns its segment, and
\* findPathWithRequiredStops adds it, goes on to the next segment, or
\* returns, after which findOptimalPath returns the result or throws.
FinishSegment ==
    /\ pc = "loop"
    /\ ~LoopContinues(unvisited, distances, SequenceOf(request)[segIndex + 1])
    /\ LET seq == SequenceOf(request)
           segment == DijkstraReturn(seq[segIndex], seq[segIndex + 1],
                                     distances, previous)
       IN  IF ~segment.found
           THEN /\ pc' = "done"
                /\ outcome' = [NoOutcome EXCEPT !.kind = "NoPathFound",
                                    !.names = request.requiredStops]
                /\ UNCHANGED <<segIndex, totalPath, totalCost>>
           ELSE /\ totalCost' = totalCost + segment.cost
                /\ totalPath' = Stitch(segIndex, totalPath, segment.path)
                /\ IF segIndex + 1 < Len(seq)
                   THEN /\ segIndex' = segIndex + 1
                        /\ pc' = "segment"
                        /\ outcome' = outcome
                   ELSE /\ segIndex' = segIndex
                        /\ pc' = "done"
                        /\ outcome' = [NoOutcome EXCEPT !.kind = "result",
                                            !.path = totalPath',
                                            !.totalCost = totalCost']
    /\ UNCHANGED <<request, graph, distances, previous, unvisited>>

Next ==
    \/ Validate
    \/ BuildGraph
    \/ BeginSegment
    \/ Iterate
    \/ FinishSegment

Spec == Init /\ [][Next]_vars

(***************************************************************************)
(* Properties of the returned path.                                        *)
(***************************************************************************)
Returned == outcome.kind = "result"

Last(s) == s[Len(s)]

\* The pairs of consecutive positions of a path.
Steps(p) == 1..(Len(p) - 1)

\* e joins u and v, in either direction.
Joins(e, u, v) ==
    \/ e.from = u /\ e.to = v
    \/ e.from = v /\ e.to = u

RECURSIVE IsSubsequence(_, _)
\* s is a subsequence of p: its entries occur in p in the same order.
IsSubsequence(s, p) ==
    IF s = <<>> THEN TRUE
    ELSE IF p = <<>> THEN FALSE
    ELSE IF Head(s) = Head(p) THEN IsSubsequence(Tail(s), Tail(p))
    ELSE IsSubsequence(s, Tail(p))

\* C1: whenever findOptimalPath returns a result, the returned path is not
\* empty, its first element is request.start and its last element is
\* request.end, whatever the number of required stops.
PathStartsAndEnds ==
    Returned =>
        /\ Len(outcome.path) >= 1
        /\ outcome.path[1] = request.start
        /\ Last(outcome.path) = request.end

\* A result for a request with required stops whose start is not its end.
PathStartsAndEndsWitness ==
    /\ Returned
    /\ Len(request.requiredStops) >= 1
    /\ request.start # request.end
    /\ Len(outcome.path) >= 3

RECURSIVE IsVisitedInOrder(_, _)
\* The entries of s occur in p in the same order, where equal neighbouring
\* entries of s may share one position of p: there are positions
\* i1 <= i2 <= ... of p with p[ij] = s[j].
IsVisitedInOrder(s, p) ==
    IF s = <<>> THEN TRUE
    ELSE IF p = <<>> THEN FALSE
    ELSE IF Head(s) = Head(p) THEN IsVisitedInOrder(Tail(s), p)
    ELSE IsVisitedInOrder(s, Tail(p))

\* C2 as stated: whenever findOptimalPath returns a result, requiredStops
\* is a subsequence of the returned path: every stop occurs, in the given
\* order, each at a position of its own.
StopsAreSubsequence ==
    Returned => IsSubsequence(request.requiredStops, outcome.path)

\* C2 as amended: whenever findOptimalPath returns a result, every required
\* stop occurs in the returned path and the stops occur in the given order,
\* at positions i1 <= i2 <= ... <= ik: a stop that repeats the entry before
\* it in [start] + requiredStops shares that entry's position.
StopsInOrder ==
    Returned => IsVisitedInOrder(request.requiredStops, outcome.path)

\* A result for two different required stops, neither of them start or end.
StopsInOrderWitness ==
    /\ Returned
    /\ Len(request.requiredStops) = 2
    /\ request.requiredStops[1] # request.requiredStops[2]
    /\ Elems(request.requiredStops) \cap {request.start, request.end} = {}

\* C3: whenever findOptimalPath returns a result, no node of blockedNodes
\* occurs in the returned path, also when start, end or a stop is blocked
\* and when start equals end.
NoBlockedNodeInPath ==
    Returned => Elems(outcome.path) \cap request.blockedNodes = {}

\* C4: whenever findOptimalPath returns a result, every two consecutive
\* nodes of the returned path are joined by an edge of the input edge list,
\* in either direction.
StepsAreInputEdges ==
    Returned =>
        \A i \in Steps(outcome.path) :
            \E k \in 1..Len(request.edges) :
                Joins(request.edges[k], outcome.path[i], outcome.path[i + 1])

\* A result whose path has three steps or more.
StepsAreInputEdgesWitness ==
    /\ Returned
    /\ Len(outcome.path) >= 4

\* The positions of the input edges that join u and v.
EdgesJoining(edges, u, v) == {k \in 1..Len(edges) : Joins(edges[k], u, v)}

Min(S) == CHOOSE x \in S : \A y \in S : x <= y

Max(S) == CHOOSE x \in S : \A y \in S : x >= y

\* edges.find(joins current and next): the first such input edge; the test
\* adds nothing when there is none.
FirstEdgeCost(edges, u, v) ==
    IF EdgesJoining(edges, u, v) = {} THEN 0
    ELSE edges[Min(EdgesJoining(edges, u, v))].cost

\* The last input edge that joins u and v.
LastEdgeCost(edges, u, v) ==
    IF EdgesJoining(edges, u, v) = {} THEN 0
    ELSE edges[Max(EdgesJoining(edges, u, v))].cost

\* The sum of StepCost over the steps of the path p.
PathSum(p, StepCost(_, _)) ==
    LET F[i \in 0..(Len(p) - 1)] ==
            IF i = 0 THEN 0 ELSE F[i - 1] + StepCost(p[i], p[i + 1])
    IN  IF Len(p) = 0 THEN 0 ELSE F[Len(p) - 1]

\* C5 as stated: whenever findOptimalPath returns a result, totalCost is
\* the sum over the steps of the returned path of the cost of the input
\* edge between the two nodes, the first matching one as the test sums it.
TotalCostIsSumOfFirstEdges ==
    Returned =>
        outcome.totalCost =
            PathSum(outcome.path,
                    LAMBDA u, v : FirstEdgeCost(request.edges, u, v))

\* C5 as amended: whenever findOptimalPath returns a result, totalCost is
\* the sum over the steps of the returned path of the cost of the last
\* input edge that joins the two nodes, which is the cost the graph holds.
TotalCostIsSumOfLastEdges ==
    Returned =>
        outcome.totalCost =
            PathSum(outcome.path,
                    LAMBDA u, v : LastEdgeCost(request.edges, u, v))

\* A result over several segments that takes a step between two nodes that
\* the input joins by edges of different costs.
TotalCostIsSumOfLastEdgesWitness ==
    /\ Returned
    /\ Len(request.requiredStops) >= 1
    /\ \E i \in Steps(outcome.path) :
          FirstEdgeCost(request.edges, outcome.path[i], outcome.path[i + 1])
              # LastEdgeCost(request.edges, outcome.path[i], outcome.path[i + 1])

(***************************************************************************)
(* Reference operators: routes of a graph, stated without the search.      *)
(***************************************************************************)
\* Every recorded cost of the adjacency structure is zero or more.
NonNegative(adj) ==
    \A u \in DOMAIN adj : \A v \in DOMAIN adj[u] : adj[u][v] >= 0

RECURSIVE RefDistance(_, _, _, _)
\* The least cost of a walk from u to v of at most k steps in adj (u and v
\* keys of adj); Infinity when there is none.
RefDistance(adj, u, v, k) ==
    IF k = 0 THEN (IF u = v THEN 0 ELSE Infinity)
    ELSE LET before == {w \in DOMAIN adj :
                           /\ v \in DOMAIN adj[w]
                           /\ RefDistance(adj, u, w, k - 1) < Infinity}
         IN  Min({RefDistance(adj, u, v, k - 1)} \cup
                 {RefDistance(adj, u, w, k - 1) + adj[w][v] : w \in before})

\* The least cost of a walk from u to v in adj, for costs of zero or more:
\* a cheapest walk then needs no node twice.
ShortestDistance(adj, u, v) ==
    RefDistance(adj, u, v, Cardinality(DOMAIN adj))

RECURSIVE ReachableFrom(_, _)
\* The keys of adj that a walk from a node of S reaches.
ReachableFrom(adj, S) ==
    LET more == S \cup UNION {DOMAIN adj[u] : u \in S}
    IN  IF more = S THEN S ELSE ReachableFrom(adj, more)

\* There is a route from u to v in adj that uses no node of blocked; a node
\* that is not blocked is its own route, whether or not it is a key of adj.
Connected(adj, blocked, u, v) ==
    /\ {u, v} \cap blocked = {}
    /\ \/ u = v
       \/ u \in DOMAIN adj /\ v \in ReachableFrom(adj, {u})

\* The adjacency structure of the data model, stated from the request: the
\* input edges none of whose ends is blocked, each pair of nodes with the
\* cost of the last such edge that joins it.
SurvivingEdges(req) ==
    SelectSeq(req.edges, LAMBDA e : e.from \notin req.blockedNodes
                                    /\ e.to \notin req.blockedNodes)

RefAdjacency(req) ==
    LET es == SurvivingEdges(req)
        K == Elems(EdgeNodes(es))
    IN  [u \in K |->
            [v \in {w \in K : EdgesJoining(es, u, w) # {}} |->
                LastEdgeCost(es, u, v)]]

\* The least cost of a walk from u to v that uses no blocked node.
WalkDistance(req, u, v) ==
    LET adj == RefAdjacency(req)
    IN  IF u \in req.blockedNodes \/ v \in req.blockedNodes THEN Infinity
        ELSE IF u = v THEN 0
        ELSE IF u \notin DOMAIN adj \/ v \notin DOMAIN adj THEN Infinity
        ELSE ShortestDistance(adj, u, v)

\* The least cost of a walk from start to end that uses no blocked node and
\* visits the required stops in the given order: such a walk is a walk from
\* each entry of [start] + requiredStops + [end] to the next, so its least
\* cost is the sum of the least costs of these.  Infinity when there is none.
RouteDistance(req) ==
    LET seq == SequenceOf(req)
        legs == {i \in 1..(Len(seq) - 1) :
                    WalkDistance(req, seq[i], seq[i + 1]) = Infinity}
    IN  IF legs # {} THEN Infinity
        ELSE PathSum(seq, LAMBDA u, v : WalkDistance(req, u, v))

(***************************************************************************)
(* Properties of the search and of the outcome.                            *)
(***************************************************************************)
SegStart == SequenceOf(request)[segIndex]

SegEnd == SequenceOf(request)[segIndex + 1]

\* The loop of the current search has ended: dijkstra is about to return.
SearchEnded ==
    /\ pc = "loop"
    /\ ~LoopContinues(unvisited, distances, SegEnd)

Validated ==
    validateNodesExist(request.nodes, request.edges,
                       request.requiredStops \o <<request.end>>).kind = "ok"

\* C6: for a graph whose costs are all zero or more and start and end keys
\* of the graph, dijkstra returns null exactly when end is not reachable
\* from start, and otherwise a path whose cost is the least cost of a walk
\* from start to end.
DijkstraIsShortest ==
    (/\ SearchEnded
     /\ NonNegative(graph.adj)
     /\ SegStart \in DOMAIN graph.adj
     /\ SegEnd \in DOMAIN graph.adj)
    => LET r == DijkstraReturn(SegStart, SegEnd, distances, previous)
           d == ShortestDistance(graph.adj, SegStart, SegEnd)
       IN  /\ r.found <=> d < Infinity
           /\ r.found => r.cost = d

\* C7: for a request with costs of zero or more on which findOptimalPath
\* returns a result, totalCost is the least cost of a walk from start to
\* end that uses no blocked node and visits the required stops in order.
RouteIsCheapest ==
    (Returned /\ \A k \in 1..Len(request.edges) : request.edges[k].cost >= 0)
    => outcome.totalCost = RouteDistance(request)

\* C8: a request that passes the validation fails with NoPathFound exactly
\* when two consecutive entries of [start] + requiredStops + [end] are not
\* connected in the graph built without the blocked nodes, and returns a
\* path otherwise.
NoPathFoundIffDisconnected ==
    (pc = "done" /\ Validated)
    => LET seq == SequenceOf(request)
           cut == \E i \in 1..(Len(seq) - 1) :
                      ~Connected(graph.adj, request.blockedNodes,
                                 seq[i], seq[i + 1])
       IN  /\ outcome.kind = "NoPathFound" <=> cut
           /\ ~cut => Returned

\* C9: a search whose start is its end returns the path of that one node
\* with cost 0, whatever the node and the graph; so a validated request
\* with start = end and no required stop returns [start] with totalCost 0.
SameNodeSearchIsTrivial ==
    /\ (SearchEnded /\ SegStart = SegEnd)
       => DijkstraReturn(SegStart, SegEnd, distances, previous)
              = [found |-> TRUE, path |-> <<SegStart>>, cost |-> 0]
    /\ (/\ pc = "done"
        /\ Validated
        /\ request.start = request.end
        /\ request.requiredStops = <<>>)
       => /\ Returned
          /\ outcome.path = <<request.start>>
          /\ outcome.totalCost = 0

\* The nodes that must exist: the required stops, then the end node.
MustExist == request.requiredStops \o <<request.end>>

RECURSIVE Absent(_, _)
\* The entries of s that valid does not hold, each as often as s holds it
\* and in the order of s.
Absent(s, valid) ==
    IF s = <<>> THEN <<>>
    ELSE IF Head(s) \in valid THEN Absent(Tail(s), valid)
    ELSE <<Head(s)>> \o Absent(Tail(s), valid)

\* C10: the validation fails with MissingNodes exactly when a required stop
\* or the end node is not declared, and the error then names the undeclared
\* ones among them, in their input order, and no other node.
MissingNodesIffUndeclared ==
    pc # "validate"
    => /\ outcome.kind = "MissingNodes"
              <=> \E i \in 1..Len(MustExist) : MustExist[i] \notin request.nodes
       /\ outcome.kind = "MissingNodes"
              => outcome.names = Absent(MustExist, request.nodes)

\* A MissingNodes error that names two different nodes, while a declared
\* node is required too and an edge end is undeclared.
MissingNodesIffUndeclaredWitness ==
    /\ outcome.kind = "MissingNodes"
    /\ Cardinality(Elems(outcome.names)) >= 2
    /\ Len(outcome.names) < Len(MustExist)
    /\ \E k \in 1..Len(request.edges) : request.edges[k].from \notin request.nodes

RECURSIVE AbsentEnds(_, _)
\* The ends of the edges that valid does not hold: edge by edge in input
\* order, the from end before the to end, each occurrence listed.
AbsentEnds(edges, valid) ==
    IF edges = <<>> THEN <<>>
    ELSE (IF Head(edges).from \in valid THEN <<>> ELSE <<Head(edges).from>>)
         \o (IF Head(edges).to \in valid THEN <<>> ELSE <<Head(edges).to>>)
         \o AbsentEnds(Tail(edges), valid)

AllMustExistDeclared ==
    \A i \in 1..Len(MustExist) : MustExist[i] \in request.nodes

\* C11: when every required stop and the end node are declared, the
\* validation fails with InvalidEdgeNodes exactly when an end of an edge is
\* not declared, and the error lists every such end, edge by edge, from
\* before to, repetitions kept; otherwise the validation succeeds and
\* changes nothing.
InvalidEdgeNodesIffUndeclaredEnd ==
    (pc # "validate" /\ AllMustExistDeclared)
    => /\ outcome.kind = "InvalidEdgeNodes"
              <=> AbsentEnds(request.edges, request.nodes) # <<>>
       /\ outcome.kind = "InvalidEdgeNodes"
              => outcome.names = AbsentEnds(request.edges, request.nodes)
       /\ AbsentEnds(request.edges, request.nodes) = <<>>
              => outcome.kind \notin {"MissingNodes", "InvalidEdgeNodes"}
       /\ pc = "build"
              => /\ outcome = NoOutcome
                 /\ graph = EmptyGraph
                 /\ <<distances, previous, unvisited>> = <<EmptyMap, EmptyMap, <<>>>>
                 /\ <<segIndex, totalPath, totalCost>> = <<1, <<>>, 0>>

\* An InvalidEdgeNodes error that lists an undeclared node twice and two
\* different nodes, for edges one end of which is declared.
InvalidEdgeNodesIffUndeclaredEndWitness ==
    /\ outcome.kind = "InvalidEdgeNodes"
    /\ Cardinality(Elems(outcome.names)) >= 2
    /\ Len(outcome.names) > Cardinality(Elems(outcome.names))
    /\ Len(outcome.names) < 2 * Len(request.edges)

\* C12: buildGraph returns exactly the adjacency structure of the data
\* model: graph[u][v] is recorded exactly when an input edge none of whose
\* ends is blocked joins u and v, with the cost of the last such edge, the
\* same in both directions; the keys are the ends of these edges, each
\* once; an empty edge list gives the empty graph.
GraphIsRefAdjacency ==
    pc \in {"segment", "loop"}
    => /\ graph.adj = RefAdjacency(request)
       /\ Elems(graph.keys) = DOMAIN graph.adj
       /\ Len(graph.keys) = Cardinality(DOMAIN graph.adj)
       /\ \A u \in DOMAIN graph.adj : \A v \in DOMAIN graph.adj[u] :
              /\ u \in DOMAIN graph.adj[v]
              /\ graph.adj[v][u] = graph.adj[u][v]
       /\ \A u \in DOMAIN graph.adj : u \notin request.blockedNodes
       /\ request.edges = <<>> => graph = EmptyGraph

\* A graph built from edges of which a blocked node removes one, and the
\* rest of which join one pair of nodes twice, with different costs.
GraphIsRefAdjacencyWitness ==
    /\ pc = "segment"
    /\ Len(SurvivingEdges(request)) < Len(request.edges)
    /\ \E u \in DOMAIN graph.adj : \E v \in DOMAIN graph.adj[u] :
          FirstEdgeCost(SurvivingEdges(request), u, v) # graph.adj[u][v]

(***************************************************************************)
(* The first draft as a function of the request: the same steps as the     *)
(* actions, each method run to its return.                                 *)
(***************************************************************************)
RECURSIVE dijkstraLoop(_, _, _, _, _)
\* The while loop of dijkstra, run until it breaks.
dijkstraLoop(g, end, unv, dist, prev) ==
    IF ~LoopContinues(unv, dist, end)
    THEN [distances |-> dist, previous |-> prev, unvisited |-> unv]
    ELSE LET current == getMinDistanceNode(unv, dist)[1]
             rest == SetDelete(unv, current)
             r == processNeighbors(current, g, rest, dist, prev)
         IN  dijkstraLoop(g, end, rest, r.distances, r.previous)

dijkstra(g, start, end) ==
    LET d == DijkstraInit(g, start)
        l == dijkstraLoop(g, end, d.unvisited, d.distances, d.previous)
    IN  DijkstraReturn(start, end, l.distances, l.previous)

RECURSIVE findPathLoop(_, _, _, _, _)
\* The for loop of findPathWithRequiredStops from the segment i on.
findPathLoop(g, seq, i, tp, tc) ==
    IF i >= Len(seq) THEN [found |-> TRUE, path |-> tp, cost |-> tc]
    ELSE LET segment == dijkstra(g, seq[i], seq[i + 1])
         IN  IF ~segment.found
             THEN [found |-> FALSE, path |-> <<>>, cost |-> 0]
             ELSE findPathLoop(g, seq, i + 1, Stitch(i, tp, segment.path),
                               tc + segment.cost)

findPathWithRequiredStops(g, start, end, requiredStops) ==
    findPathLoop(g, <<start>> \o requiredStops \o <<end>>, 1, <<>>, 0)

findOptimalPath(req) ==
    LET v == validateNodesExist(req.nodes, req.edges,
                                req.requiredStops \o <<req.end>>)
        result == findPathWithRequiredStops(
                      buildGraph(req.edges, req.blockedNodes),
                      req.start, req.end, req.requiredStops)
    IN  IF v.kind # "ok"
        THEN [NoOutcome EXCEPT !.kind = v.kind, !.names = v.names]
        ELSE IF ~result.found
        THEN [NoOutcome EXCEPT !.kind = "NoPathFound",
                               !.names = req.requiredStops]
        ELSE [NoOutcome EXCEPT !.kind = "result", !.path = result.path,
                               !.totalCost = result.cost]

\* The actions, run to the end, give what the function gives.
StepsGiveFindOptimalPath ==
    pc = "done" => outcome = findOptimalPath(request)

RECURSIVE SegmentsJoined(_, _, _)
\* The paths of the searches for the first i pairs of consecutive entries
\* of seq, one after the other, each but the first without its first node.
SegmentsJoined(g, seq, i) ==
    IF i = 0 THEN <<>>
    ELSE LET p == dijkstra(g, seq[i], seq[i + 1]).path
         IN  SegmentsJoined(g, seq, i - 1)
             \o (IF i = 1 THEN p ELSE SubSeq(p, 2, Len(p)))

\* C14: the returned path is the paths of the segments between consecutive
\* entries of [start] + requiredStops + [end] one after the other, each but
\* the first without its first node, and no two neighbouring entries of it
\* are equal, at a join or where two neighbouring entries of the sequence
\* are the same node.
PathIsSegmentsJoined ==
    Returned
    => /\ outcome.path =
              SegmentsJoined(buildGraph(request.edges, request.blockedNodes),
                             <<request.start>> \o request.requiredStops
                                 \o <<request.end>>,
                             Len(request.requiredStops) + 1)
       /\ \A i \in Steps(outcome.path) : outcome.path[i] # outcome.path[i + 1]

\* A result of three nodes or more for a sequence two neighbouring entries
\* of which are the same node.
PathIsSegmentsJoinedWitness ==
    /\ Returned
    /\ \E i \in Steps(SequenceOf(request)) :
          SequenceOf(request)[i] = SequenceOf(request)[i + 1]
    /\ Len(outcome.path) >= 3

\* The ends of the edges that the request does not declare.
UndeclaredEnds ==
    ({request.edges[k].from : k \in 1..Len(request.edges)}
        \cup {request.edges[k].to : k \in 1..Len(request.edges)})
    \ request.nodes

UndeclaredRequired ==
    (Elems(request.requiredStops) \cup {request.end}) \ request.nodes

\* C15: the checks have a fixed precedence: a request with an undeclared
\* required stop or end fails with MissingNodes whatever its edges and
\* routes; one with undeclared ends of edges only fails with
\* InvalidEdgeNodes whether or not there is a route; NoPathFound and
\* results, and the steps that build and search, occur only for requests
\* that pass both checks.
ValidationPrecedes ==
    /\ pc = "done"
       => /\ UndeclaredRequired # {} => outcome.kind = "MissingNodes"
          /\ (UndeclaredRequired = {} /\ UndeclaredEnds # {})
                 => outcome.kind = "InvalidEdgeNodes"
          /\ outcome.kind \in {"NoPathFound", "result"}
                 => UndeclaredRequired = {} /\ UndeclaredEnds = {}
    /\ pc \in {"build", "segment", "loop"}
       => UndeclaredRequired = {} /\ UndeclaredEnds = {}

\* A MissingNodes error for a request that also has an undeclared end of an
\* edge and no route from start to end.
ValidationPrecedesWitness ==
    /\ outcome.kind = "MissingNodes"
    /\ UndeclaredEnds # {}
    /\ request.edges # <<>>
    /\ ~Connected(RefAdjacency(request), request.blockedNodes,
                  request.start, request.end)

\* C16: one relaxation step, for the node current just taken out of
\* unvisited, changes the distance and the predecessor of a node n only if
\* n is an unvisited neighbor of current and distance[current] + cost is
\* strictly below distance[n], and then sets them to that sum and to
\* current; every other distance and predecessor, the rest of unvisited and
\* the graph stay as they were.
RelaxationFrame ==
    [][(pc = "loop" /\ pc' = "loop")
       => \E current \in Elems(unvisited) :
             /\ unvisited' = SelectSeq(unvisited, LAMBDA m : m # current)
             /\ graph' = graph
             /\ DOMAIN distances' = DOMAIN distances
             /\ \A n \in DOMAIN distances :
                   IF /\ n \in Elems(unvisited')
                      /\ n \in DOMAIN graph.adj[current]
                      /\ distances[current] + graph.adj[current][n]
                             < distances[n]
                   THEN /\ distances'[n] =
                               distances[current] + graph.adj[current][n]
                        /\ n \in DOMAIN previous'
                        /\ previous'[n] = current
                   ELSE /\ distances'[n] = distances[n]
                        /\ n \in DOMAIN previous' <=> n \in DOMAIN previous
                        /\ n \in DOMAIN previous
                               => previous'[n] = previous[n]]_vars

\* A search in which a neighbor of the start node, reached from it first,
\* has been given a smaller distance from another node, while another
\* unvisited node kept the distance it had.
RelaxationFrameWitness ==
    /\ pc = "loop"
    /\ \E n \in DOMAIN previous :
          /\ previous[n] # SegStart
          /\ n \in DOMAIN Neighbors(graph, SegStart)
          /\ distances[n] < Neighbors(graph, SegStart)[n]

\* The nodes of the graph that the current search has taken out of
\* unvisited.
Settled == Elems(graph.keys) \ Elems(unvisited)

\* C17: in every state of a search over a graph with costs of zero or
\* more, every settled node has as tentative distance its least distance
\* from the start of the segment, and keeps it at every later step; the
\* node a step selects has a finite tentative distance that no unvisited
\* node undercuts, so that no node is selected when every remaining
\* distance is infinite.
SettledAreFinal ==
    /\ []((pc = "loop" /\ NonNegative(graph.adj))
          => \A n \in Settled :
                distances[n] = ShortestDistance(graph.adj, SegStart, n))
    /\ [][(pc = "loop" /\ pc' = "loop" /\ NonNegative(graph.adj))
          => /\ \A n \in Settled : distances'[n] = distances[n]
             /\ \A c \in Elems(unvisited) \ Elems(unvisited') :
                   /\ distances[c] < Infinity
                   /\ \A m \in Elems(unvisited) :
                         distances[c] <= distances[m]]_vars

\* A search over costs of zero or more that has settled a node other than
\* its start while an unvisited node it reached waits with a larger
\* distance, lowered from the one the start node gave it.
SettledAreFinalWitness ==
    /\ pc = "loop"
    /\ NonNegative(graph.adj)
    /\ \E n \in Settled : \E m \in Elems(unvisited) :
          /\ n # SegStart
          /\ m \in DOMAIN previous
          /\ previous[m] = n
          /\ distances[n] < distances[m]
          /\ m \in DOMAIN Neighbors(graph, SegStart)

RECURSIVE Ancestors(_, _)
\* The nodes that the predecessor map leads to from the nodes of S.
Ancestors(prev, S) ==
    LET more == S \cup {prev[n] : n \in S \cap DOMAIN prev}
    IN  IF more = S THEN S ELSE Ancestors(prev, more)

\* The number of steps a call has left at most: one search takes a step to
\* begin, one step for each node of the graph (the ends of the edges at
\* most) and one to return.
StepsLeft ==
    LET perSegment == 2 * Len(request.edges) + 2
        segments == Len(SequenceOf(request)) - 1
    IN  CASE pc = "validate" -> segments * perSegment + 2
          [] pc = "build" -> segments * perSegment + 1
          [] pc = "segment" -> (segments - segIndex + 1) * perSegment
          [] pc = "loop" -> (segments - segIndex) * perSegment
                            + 1 + Len(unvisited)
          [] pc = "done" -> 0

\* C18: every call ends, whatever the costs: every iteration of the loop
\* that does not stop takes exactly one node out of unvisited; the
\* predecessor of a node is a node settled before it, other than itself,
\* so that no walk over predecessors comes back to its node; and a call
\* that has no outcome yet is at a position that has a next step (in the
\* loop, one of the two: it goes on or it ends), each step leaving fewer
\* steps to take, so that the outcome comes after finitely many.
CallTerminates ==
    /\ [](pc = "loop"
          => \A n \in DOMAIN previous :
                /\ previous[n] \in Settled
                /\ n \notin Ancestors(previous, {previous[n]}))
    /\ [][(pc = "loop" /\ pc' = "loop")
          => /\ Len(unvisited') = Len(unvisited) - 1
             /\ \A n \in DOMAIN previous' :
                   (n \notin DOMAIN previous \/ previous'[n] # previous[n])
                   => n \in Elems(unvisited')
                      /\ previous'[n] \notin Elems(unvisited')]_vars
    /\ [](/\ StepsLeft >= 0
          /\ pc # "done" => pc \in {"validate", "build", "segment", "loop"}
          /\ pc = "done" <=> outcome # NoOutcome)
    /\ [][StepsLeft' < StepsLeft]_vars

\* A result of three nodes for a request with a negative self-loop edge
\* and a cost of zero on a node of the path.
CallTerminatesWitness ==
    /\ Returned
    /\ Len(outcome.path) >= 3
    /\ \E k \in 1..Len(request.edges) :
          /\ request.edges[k].cost < 0
          /\ request.edges[k].from \in Elems(outcome.path)
          /\ request.edges[k].from \notin request.blockedNodes

\* C19: start is never validated, and yet every node of a returned path,
\* start included, is a declared node, and a request whose start is not
\* declared ends in an error.
PathNodesAreDeclared ==
    /\ Returned
       => /\ Elems(outcome.path) \subseteq request.nodes
          /\ request.start \in request.nodes
    /\ (pc = "done" /\ request.start \notin request.nodes)
       => outcome.kind \in {"MissingNodes", "InvalidEdgeNodes", "NoPathFound"}

\* A request with an undeclared start that passes the validation, is
\* searched over a graph with edges, and ends with NoPathFound.
PathNodesAreDeclaredWitness ==
    /\ pc = "done"
    /\ request.start \notin request.nodes
    /\ outcome.kind = "NoPathFound"
    /\ DOMAIN graph.adj # {}

(***************************************************************************)
(* The search when the iteration order of unvisited is left open: the      *)
(* selection returns the first node, in that order, of least distance, so  *)
(* that over all orders it returns any node of least distance.             *)
(***************************************************************************)
\* The requests of this specification: identifiers of all of NodeIds, all
\* declared, and edges with costs of zero or more.
TieRequests ==
    {r \in [start : NodeIds, end : NodeIds, nodes : {NodeIds},
            edges : EdgeLists(NodeIds), blockedNodes : BlockedSets(NodeIds),
            requiredStops : StopLists(NodeIds)] :
        \A k \in 1..Len(r.edges) : r.edges[k].cost >= 0}

\* What getMinDistanceNode returns for some iteration order of unvisited:
\* a node of finite, least distance, or null when there is none.
Selections(unv, dist) ==
    LET least == {n \in Elems(unv) :
                     /\ dist[n] < Infinity
                     /\ \A m \in Elems(unv) : dist[n] <= dist[m]}
    IN  IF least = {} THEN {<<>>} ELSE {<<n>> : n \in least}

InitAnyOrder ==
    /\ request \in TieRequests
    /\ pc = "validate"
    /\ graph = EmptyGraph
    /\ segIndex = 1
    /\ distances = EmptyMap
    /\ previous = EmptyMap
    /\ unvisited = <<>>
    /\ totalPath = <<>>
    /\ totalCost = 0
    /\ outcome = NoOutcome

\* One iteration of the loop that does not break, for some selection.
IterateAnyOrder ==
    /\ pc = "loop"
    /\ Len(unvisited) > 0
    /\ \E cur \in Selections(unvisited, distances) :
          /\ Truthy(cur)
          /\ cur[1] # SegEnd
          /\ LET unv == SetDelete(unvisited, cur[1])
                 r == processNeighbors(cur[1], graph, unv, distances, previous)
             IN  /\ unvisited' = unv
                 /\ distances' = r.distances
                 /\ previous' = r.previous
    /\ UNCHANGED <<request, pc, graph, segIndex, totalPath, totalCost, outcome>>

\* The loop ends for some selection; the rest is FinishSegment.
FinishSegmentAnyOrder ==
    /\ pc = "loop"
    /\ \/ Len(unvisited) = 0
       \/ \E cur \in Selections(unvisited, distances) :
             IF Truthy(cur) THEN cur[1] = SegEnd ELSE TRUE
    /\ LET segment == DijkstraReturn(SegStart, SegEnd, distances, previous)
       IN  IF ~segment.found
           THEN /\ pc' = "done"
                /\ outcome' = [NoOutcome EXCEPT !.kind = "NoPathFound",
                                    !.names = request.requiredStops]
                /\ UNCHANGED <<segIndex, totalPath, totalCost>>
           ELSE /\ totalCost' = totalCost + segment.cost
                /\ totalPath' = Stitch(segIndex, totalPath, segment.path)
                /\ IF segIndex + 1 < Len(SequenceOf(request))
                   THEN /\ segIndex' = segIndex + 1
                        /\ pc' = "segment"
                        /\ outcome' = outcome
                   ELSE /\ segIndex' = segIndex
                        /\ pc' = "done"
                        /\ outcome' = [NoOutcome EXCEPT !.kind = "result",
                                            !.path = totalPath',
                                            !.totalCost = totalCost']
    /\ UNCHANGED <<request, graph, distances, previous, unvisited>>

NextAnyOrder ==
    \/ Validate
    \/ BuildGraph
    \/ BeginSegment
    \/ IterateAnyOrder
    \/ FinishSegmentAnyOrder

SpecAnyOrder == InitAnyOrder /\ [][NextAnyOrder]_vars

\* C13: for a request with costs of zero or more, whatever node of least
\* distance each step of the search selects, the call ends with the kind
\* of outcome and, for a result, the totalCost that the iteration order of
\* the code gives.
CostIsDeterministic ==
    (pc = "done" /\ \A k \in 1..Len(request.edges) : request.edges[k].cost >= 0)
    => /\ outcome.kind = findOptimalPath(request).kind
       /\ Returned => outcome.totalCost = findOptimalPath(request).totalCost

(***************************************************************************)
(* The second draft of the service, as a function of the request.  Its     *)
(* buildGraph is that of the first draft, line for line.                   *)
(***************************************************************************)
\* distances and previous before the loop of a segment.
initializeDijkstra(g, start) ==
    [distances |-> [n \in (DOMAIN g.adj) \cup {start} |->
                       IF n = start THEN 0 ELSE Infinity],
     previous |-> EmptyMap]

\* The first unvisited node whose distance is strictly below every
\* distance before it; the empty string when there is none.
findNextNode(unv, dist) ==
    LET F[i \in 0..Len(unv)] ==
            IF i = 0 THEN [current |-> "", minDistance |-> Infinity]
            ELSE IF dist[unv[i]] < F[i - 1].minDistance
                 THEN [current |-> unv[i], minDistance |-> dist[unv[i]]]
                 ELSE F[i - 1]
    IN  F[Len(unv)].current

\* current becomes visited; every neighbor not yet visited that current
\* brings strictly nearer gets the new distance and current as predecessor.
updateNeighbors(current, g, dist, prev, visited, unv) ==
    LET seen == visited \cup {current}
        neighbors == Neighbors(g, current)
        imp == {n \in DOMAIN neighbors :
                   /\ n \notin seen
                   /\ dist[current] + neighbors[n] < dist[n]}
    IN  [distances |-> [n \in DOMAIN dist |->
                           IF n \in imp THEN dist[current] + neighbors[n]
                           ELSE dist[n]],
         previous |-> [n \in (DOMAIN prev) \cup imp |->
                          IF n \in imp THEN current ELSE prev[n]],
         visited |-> seen,
         unvisited |-> SelectSeq(unv, LAMBDA n : n # current)]

RECURSIVE SegmentWalk(_, _, _, _)
\* while (current !== start) { path.unshift(current);
\*   current = previous.get(current); if (!current) return null; }
SegmentWalk(current, start, prev, path) ==
    IF current = start THEN [found |-> TRUE, path |-> <<start>> \o path]
    ELSE IF current \notin DOMAIN prev \/ prev[current] = ""
         THEN [found |-> FALSE, path |-> <<>>]
         ELSE SegmentWalk(prev[current], start, prev, <<current>> \o path)

reconstructSegmentPath(start, end, prev) == SegmentWalk(end, start, prev, <<>>)

RECURSIVE SecondLoop(_, _, _, _, _, _)
\* The while loop of the second dijkstra, run until it breaks.
SecondLoop(g, currentEnd, unv, visited, dist, prev) ==
    IF Len(unv) = 0 THEN [distances |-> dist, previous |-> prev]
    ELSE LET current == findNextNode(unv, dist)
         IN  IF current = "" \/ current = currentEnd
             THEN [distances |-> dist, previous |-> prev]
             ELSE LET u == updateNeighbors(current, g, dist, prev,
                                           visited, unv)
                  IN  SecondLoop(g, currentEnd, u.unvisited, u.visited,
                                 u.distances, u.previous)

RECURSIVE SecondSegments(_, _, _, _, _)
\* The for loop of the second dijkstra from the segment i on.
SecondSegments(g, sequence, i, tp, tc) ==
    IF i >= Len(sequence) THEN [found |-> TRUE, path |-> tp, cost |-> tc]
    ELSE LET d == initializeDijkstra(g, sequence[i])
             l == SecondLoop(g, sequence[i + 1], g.keys, {},
                             d.distances, d.previous)
             segmentPath == reconstructSegmentPath(sequence[i],
                                sequence[i + 1], l.previous)
         IN  IF ~segmentPath.found
             THEN [found |-> FALSE, path |-> <<>>, cost |-> 0]
             ELSE SecondSegments(g, sequence, i + 1,
                      IF i = 1 THEN segmentPath.path
                      ELSE tp \o Tail(segmentPath.path),
                      tc + l.distances[sequence[i + 1]])

dijkstraSecond(g, start, end, requiredStops) ==
    SecondSegments(g, <<start>> \o requiredStops \o <<end>>, 1, <<>>, 0)

\* The second findOptimalPath: the search first, then the checks.
findOptimalPathSecond(req) ==
    LET result == dijkstraSecond(buildGraph(req.edges, req.blockedNodes),
                                 req.start, req.end, req.requiredStops)
        missingNodes == SelectSeq(req.requiredStops \o <<req.end>>,
                                  LAMBDA n : n \notin req.nodes)
        invalidEdgeNodes == SelectSeq(EdgeNodes(req.edges),
                                      LAMBDA n : n \notin req.nodes)
    IN  IF Len(missingNodes) > 0
        THEN [NoOutcome EXCEPT !.kind = "MissingNodes",
                               !.names = missingNodes]
        ELSE IF Len(invalidEdgeNodes) > 0
        THEN [NoOutcome EXCEPT !.kind = "InvalidEdgeNodes",
                               !.names = invalidEdgeNodes]
        ELSE IF ~result.found
        THEN [NoOutcome EXCEPT !.kind = "NoPathFound",
                               !.names = req.requiredStops]
        ELSE [NoOutcome EXCEPT !.kind = "result", !.path = result.path,
                               !.totalCost = result.cost]

\* C20: the two drafts agree on every request that has both constraint
\* lists: the same kind of outcome, the same list of offending nodes for a
\* validation error, and for a result the same totalCost and the same
\* path.
DraftsAgree ==
    pc = "done"
    => LET second == findOptimalPathSecond(request)
       IN  /\ outcome.kind = second.kind
           /\ outcome.kind \in {"MissingNodes", "InvalidEdgeNodes"}
                  => outcome.names = second.names
           /\ Returned => /\ outcome.totalCost = second.totalCost
                          /\ outcome.path = second.path

====
